---- MODULE Spec2Model ----
(***************************************************************************)
(* Ingestion, event bus and provider registry of the Zero-Touch API.       *)
(*                                                                         *)
(* The specifications share the variables below:                           *)
(*   SpecRegistry  ProviderManager.setDefault / get over the in-memory     *)
(*                 Map and the provider_configurations table               *)
(*   SpecBus       EventBus.emit / subscribe and the bounded history       *)
(*   SpecIngest    POST /ingest with classifyLead, the ledger, the audit   *)
(*                 log and the 'lead:new' publication                      *)
(*   SpecHealth    ProviderManager.runHealthChecks rounds                  *)
(* Each specification leaves the variables of the other parts unchanged.   *)
(***************************************************************************)
EXTENDS Integers, Sequences, FiniteSets, TLC

VARIABLES
    providers,                \* ProviderManager.providers: the Map, in insertion order
    provider_configurations,  \* the table: key -> row
    sd,                       \* in-flight POST /default requests, one per caller
    listeners,                \* EventEmitter listener lists: event name -> handlers
    history,                  \* EventBus.history
    delivered,                \* handler invocations of the latest publisher's emit call, in order
    emitted,                  \* number of emit calls so far (numbers the payloads)
    published,                \* number of emit calls made by publishers, not by handlers
    lastEmit,                 \* how the last publisher's emit call ended
    req,                      \* in-flight POST /ingest requests
    universal_leads_ledger,   \* the table, in insertion order
    audit_log,                \* the table, in insertion order
    round,                    \* runHealthChecks calls in progress, by who started them
    health_status,            \* provider_configurations.health_status: key -> status
    got,                      \* the last ProviderManager.get call and what it returned
    clients,                  \* the gateway's Set of sockets, in insertion order
    readyState,               \* socket -> state of the connection
    inbox,                    \* socket -> the messages that reached the listener
    queried,                  \* the last history query and what it returned
    patch                     \* in-flight PATCH /:id/status requests

vars == <<providers, provider_configurations, sd, listeners, history, delivered,
          emitted, published, lastEmit, req, universal_leads_ledger, audit_log,
          round, health_status, got, clients, readyState, inbox, queried, patch>>

healthVars == <<round, health_status, got>>
dashboardVars == <<clients, readyState, inbox, queried, patch>>
\* everything the bus and the ingestion leave unchanged
regVars == <<providers, provider_configurations, sd, healthVars, dashboardVars>>
busVars == <<listeners, history, delivered, emitted, published, lastEmit>>
ingestVars == <<req, universal_leads_ledger, audit_log>>
coreVars == <<providers, provider_configurations, sd, healthVars>>

Null == "null"

\* Sequence helpers ---------------------------------------------------------

Range(s) == {s[i] : i \in 1..Len(s)}

\* Array.prototype.slice(-n) for n > 0: the last n elements
SliceLast(s, n) == IF Len(s) <= n THEN s ELSE SubSeq(s, Len(s) - n + 1, Len(s))

(***************************************************************************)
(* PROVIDER REGISTRY                                                       *)
(***************************************************************************)

\* A Map key `${type}:${name}` is modelled as the pair <<type, name>>; no
\* registered type or name contains a colon, so key.startsWith(`${type}:`)
\* is equality of the first component.
Key(type, name) == <<type, name>>
StartsWithType(key, type) == key[1] = type

\* Rows of provider_configurations (the seed rows of two types).
ConfigRows == {Key("voice", "vapi"), Key("voice", "twilio"),
               Key("email", "sendgrid"), Key("email", "resend")}

\* Rows that initialize() loads: is_active = TRUE and initializeProvider succeeded.
\* email:resend is a row that is not loaded (inactive).
ActiveRows == ConfigRows \ {Key("email", "resend")}

Types == {k[1] : k \in ConfigRows}

\* (type, name) pairs a caller may pass to POST /default: registered pairs, a row
\* that is not loaded, a name of another type, an unknown type, a missing name.
SetDefaultArgs == ConfigRows \cup {Key("voice", "sendgrid"), Key("fax", "vapi"),
                                   Key("voice", "")}

Callers == {"c1", "c2"}

\* initializeProvider: the entry stored in the Map for a row
Entry(key, row) ==
    [key |-> key, isDefault |-> row.is_default, lastHealthCheck |-> Null,
     isHealthy |-> TRUE]

\* ORDER BY provider_type, is_default DESC of initialize(), for the loaded rows
InitOrderOk(seq, table) ==
    /\ Len(seq) = Cardinality(ActiveRows)
    /\ Range(seq) = ActiveRows
    /\ \A i, j \in 1..Len(seq) : i < j =>
          \/ seq[i][1] = "email" /\ seq[j][1] = "voice"
          \/ /\ seq[i][1] = seq[j][1]
             /\ (table[seq[j]].is_default => table[seq[i]].is_default)

DefaultsOf(table, type) == {k \in DOMAIN table : k[1] = type /\ table[k].is_default}

\* Mutant of Get: without a default of the type, the first entry of the Map
GetAnyType(provs, type, name) ==
    IF name # Null /\ name # ""
    THEN IF \E i \in 1..Len(provs) : provs[i].key = Key(type, name)
         THEN Key(type, name) ELSE Null
    ELSE LET dflt == {i \in 1..Len(provs) :
                        StartsWithType(provs[i].key, type) /\ provs[i].isDefault}
             first(S) == CHOOSE i \in S : \A j \in S : i <= j
         IN  IF dflt # {} THEN provs[first(dflt)].key
             ELSE IF Len(provs) > 0 THEN provs[1].key
             ELSE Null

\* ProviderManager.get(type, name): the key of the instance returned, or Null.
\* `if (name)` takes a missing and an empty name alike.
Get(provs, type, name) ==
    IF name # Null /\ name # ""
    THEN IF \E i \in 1..Len(provs) : provs[i].key = Key(type, name)
         THEN Key(type, name) ELSE Null
    ELSE LET dflt == {i \in 1..Len(provs) :
                        StartsWithType(provs[i].key, type) /\ provs[i].isDefault}
             any == {i \in 1..Len(provs) : StartsWithType(provs[i].key, type)}
             first(S) == CHOOSE i \in S : \A j \in S : i <= j
         IN  IF dflt # {} THEN provs[first(dflt)].key
             ELSE IF any # {} THEN provs[first(any)].key
             ELSE Null

\* Mutants of SetDefaultInMemory (not part of the model of the code)
SetDefaultInMemoryNoClear(provs, type, name) ==
    [i \in 1..Len(provs) |->
        IF provs[i].key = Key(type, name)
        THEN [provs[i] EXCEPT !.isDefault = TRUE] ELSE provs[i]]

SetDefaultInMemoryInverted(provs, type, name) ==
    [i \in 1..Len(provs) |->
        IF StartsWithType(provs[i].key, type)
        THEN [provs[i] EXCEPT !.isDefault = (provs[i].key # Key(type, name))]
        ELSE provs[i]]

\* setDefault, the loop over this.providers
SetDefaultInMemory(provs, type, name) ==
    [i \in 1..Len(provs) |->
        IF StartsWithType(provs[i].key, type)
        THEN [provs[i] EXCEPT !.isDefault = (provs[i].key = Key(type, name))]
        ELSE provs[i]]

\* Mutant of ClearDefaults: the first UPDATE changes nothing
ClearDefaultsSkipped(table, type) == table

\* UPDATE ... SET is_default = FALSE WHERE provider_type = $1
ClearDefaults(table, type) ==
    [k \in DOMAIN table |->
        IF k[1] = type THEN [table[k] EXCEPT !.is_default = FALSE] ELSE table[k]]

\* UPDATE ... SET is_default = TRUE WHERE provider_type = $1 AND provider_name = $2
MarkDefault(table, type, name) ==
    [k \in DOMAIN table |->
        IF k = Key(type, name) THEN [table[k] EXCEPT !.is_default = TRUE] ELSE table[k]]

IdleCall == [pc |-> "idle", type |-> "", name |-> "", status |-> 0]

RegistryInit ==
    /\ provider_configurations \in
          {t \in [ConfigRows -> [is_default : BOOLEAN, is_active : BOOLEAN]] :
              /\ \A k \in ConfigRows : t[k].is_active = (k \in ActiveRows)
              /\ \A type \in Types : Cardinality(DefaultsOf(t, type)) <= 1}
    /\ \E order \in [1..Cardinality(ActiveRows) -> ActiveRows] :
          /\ InitOrderOk(order, provider_configurations)
          /\ providers = [i \in 1..Len(order) |->
                             Entry(order[i], provider_configurations[order[i]])]
    /\ sd = [c \in Callers |-> IdleCall]

\* POST /default with a missing type or name: 400, setDefault is not called
RejectDefault(c) ==
    /\ sd[c].pc = "idle"
    /\ \E a \in SetDefaultArgs :
          /\ a[1] = "" \/ a[2] = ""
          /\ sd' = [sd EXCEPT ![c] = [pc |-> "idle", type |-> a[1], name |-> a[2],
                                      status |-> 400]]
    /\ UNCHANGED <<providers, provider_configurations>>
    /\ UNCHANGED <<busVars, ingestVars, healthVars, dashboardVars>>

\* POST /default: setDefault(type, name) is called and sends its first UPDATE
CallSetDefault(c, Args) ==
    /\ sd[c].pc = "idle"
    /\ \E a \in Args :
          /\ a[1] # "" /\ a[2] # ""
          /\ sd' = [sd EXCEPT ![c] = [pc |-> "clearing", type |-> a[1], name |-> a[2],
                                      status |-> 0]]
    /\ UNCHANGED <<providers, provider_configurations>>
    /\ UNCHANGED <<busVars, ingestVars, healthVars, dashboardVars>>

\* the first UPDATE is applied; setDefault resumes and sends the second
ClearApplied(c) ==
    /\ sd[c].pc = "clearing"
    /\ provider_configurations' = ClearDefaults(provider_configurations, sd[c].type)
    /\ sd' = [sd EXCEPT ![c].pc = "setting"]
    /\ UNCHANGED providers
    /\ UNCHANGED <<busVars, ingestVars, healthVars, dashboardVars>>

\* the second UPDATE is applied
SetApplied(c) ==
    /\ sd[c].pc = "setting"
    /\ provider_configurations' =
          MarkDefault(provider_configurations, sd[c].type, sd[c].name)
    /\ sd' = [sd EXCEPT ![c].pc = "updating"]
    /\ UNCHANGED providers
    /\ UNCHANGED <<busVars, ingestVars, healthVars, dashboardVars>>

\* either UPDATE fails: db.query throws, setDefault rejects, the route answers 500
QueryFails(c) ==
    /\ sd[c].pc \in {"clearing", "setting"}
    /\ sd' = [sd EXCEPT ![c].pc = "idle", ![c].status = 500]
    /\ UNCHANGED <<providers, provider_configurations>>
    /\ UNCHANGED <<busVars, ingestVars, healthVars, dashboardVars>>

\* setDefault resumes after the second UPDATE: the loop over the Map, then 200
UpdateMemory(c) ==
    /\ sd[c].pc = "updating"
    /\ providers' = SetDefaultInMemory(providers, sd[c].type, sd[c].name)
    /\ sd' = [sd EXCEPT ![c].pc = "idle", ![c].status = 200]
    /\ UNCHANGED provider_configurations
    /\ UNCHANGED <<busVars, ingestVars, healthVars, dashboardVars>>

RegistryNext ==
    \E c \in Callers :
        \/ RejectDefault(c)
        \/ CallSetDefault(c, SetDefaultArgs)
        \/ ClearApplied(c)
        \/ SetApplied(c)
        \/ QueryFails(c)
        \/ UpdateMemory(c)

(***************************************************************************)
(* HEALTH MONITOR: runHealthChecks                                         *)
(***************************************************************************)

\* Who calls runHealthChecks: startHealthChecks at startup, the interval timer,
\* POST /health/check. Nothing in runHealthChecks tells the callers apart.
Rounds == {"startup", "interval", "manual"}

\* What instance.healthCheck() does: resolve true or false, reject, or never
\* settle (a fetch without a timeout)
ProbeOutcomes == {"healthy", "unhealthy", "throws", "hangs"}

HealthStatuses == {"unknown", "healthy", "unhealthy"}

\* a runHealthChecks call: pc, the index of the Map entry of the loop, the local
\* constant isHealthy of the iteration, and how the call ended for its caller
IdleRound == [pc |-> "idle", i |-> 0, isHealthy |-> FALSE, res |-> "none"]

\* the for-of loop goes to its next entry, or the call returns
NextEntry(rd, provs) ==
    IF rd.i < Len(provs)
    THEN [rd EXCEPT !.pc = "probing", !.i = rd.i + 1]
    ELSE [rd EXCEPT !.pc = "done", !.res = "returned"]

\* lines 163-164 and 176-177: data.isHealthy = ..., data.lastHealthCheck = new Date()
MarkHealth(provs, i, isHealthy) ==
    [provs EXCEPT ![i].isHealthy = isHealthy, ![i].lastHealthCheck = "set"]

\* the interval timer fires or POST /health/check arrives: runHealthChecks runs
\* up to its first await; nothing checks whether another call is in progress
StartRound(r) ==
    /\ r # "startup"
    /\ round[r].pc \in {"idle", "done"}
    /\ round' = [round EXCEPT ![r] = NextEntry(IdleRound, providers)]
    /\ UNCHANGED <<providers, provider_configurations, sd, health_status, got>>
    /\ UNCHANGED <<busVars, ingestVars, dashboardVars>>

\* healthCheck() resolves: lines 162-167, up to the await of updateHealth
ProbeReturns(r, outcomes) ==
    /\ round[r].pc = "probing"
    /\ \E o \in outcomes \cap {"healthy", "unhealthy"} :
          /\ providers' = MarkHealth(providers, round[r].i, o = "healthy")
          /\ round' = [round EXCEPT ![r].pc = "persisting",
                                    ![r].isHealthy = (o = "healthy")]
    /\ UNCHANGED <<provider_configurations, sd, health_status, got>>
    /\ UNCHANGED <<busVars, ingestVars, dashboardVars>>

\* healthCheck() rejects: the catch block, lines 175-179, then the next entry
ProbeThrows(r, outcomes) ==
    /\ round[r].pc = "probing"
    /\ "throws" \in outcomes
    /\ providers' = MarkHealth(providers, round[r].i, FALSE)
    /\ round' = [round EXCEPT ![r] = NextEntry(round[r], providers)]
    /\ UNCHANGED <<provider_configurations, sd, health_status, got>>
    /\ UNCHANGED <<busVars, ingestVars, dashboardVars>>

\* healthCheck() never settles: the await of line 162 never resumes
ProbeHangs(r, outcomes) ==
    /\ round[r].pc = "probing"
    /\ "hangs" \in outcomes
    /\ round' = [round EXCEPT ![r].pc = "hung"]
    /\ UNCHANGED <<providers, provider_configurations, sd, health_status, got>>
    /\ UNCHANGED <<busVars, ingestVars, dashboardVars>>

\* providersDb.updateHealth is applied; lines 172-174, then the next entry
PersistApplied(r) ==
    /\ round[r].pc = "persisting"
    /\ health_status' =
          [health_status EXCEPT ![providers[round[r].i].key] =
              IF round[r].isHealthy THEN "healthy" ELSE "unhealthy"]
    /\ round' = [round EXCEPT ![r] = NextEntry(round[r], providers)]
    /\ UNCHANGED <<providers, provider_configurations, sd, got>>
    /\ UNCHANGED <<busVars, ingestVars, dashboardVars>>

\* providersDb.updateHealth rejects: the same catch block, lines 175-179
PersistFails(r) ==
    /\ round[r].pc = "persisting"
    /\ providers' = MarkHealth(providers, round[r].i, FALSE)
    /\ round' = [round EXCEPT ![r] = NextEntry(round[r], providers)]
    /\ UNCHANGED <<provider_configurations, sd, health_status, got>>
    /\ UNCHANGED <<busVars, ingestVars, dashboardVars>>

\* Arguments of get: a registered type, a type with no provider, with and
\* without a name
GetTypes == Types \cup {"fax"}
GetNames == {Null, "", "vapi", "sendgrid", "resend"}

NoGet == [type |-> "", name |-> Null, result |-> Null, threw |-> FALSE]

\* a caller calls providerManager.get(type, name)
GetCall(type, name) ==
    /\ got' = [type |-> type, name |-> name, result |-> Get(providers, type, name),
               threw |-> FALSE]
    /\ got' # got
    /\ UNCHANGED <<providers, provider_configurations, sd, round, health_status>>
    /\ UNCHANGED <<busVars, ingestVars, dashboardVars>>

\* getHealthStatus(): status[type][name] for every entry of the Map, the nested
\* object indexed here by the pair <<type, name>>
getHealthStatus(provs) ==
    [k \in {provs[i].key : i \in 1..Len(provs)} |->
        LET data == provs[CHOOSE i \in 1..Len(provs) : provs[i].key = k]
        IN  [healthy |-> data.isHealthy, default |-> data.isDefault,
             lastCheck |-> data.lastHealthCheck]]

HealthIdle ==
    /\ round = [r \in Rounds |-> IdleRound]
    /\ health_status = [k \in ConfigRows |-> "unknown"]
    /\ got = NoGet

\* after initialize(): startHealthChecks has set the timer and called
\* runHealthChecks, which is at its first await
HealthInit ==
    /\ round = [r \in Rounds |->
                   IF r = "startup" THEN NextEntry(IdleRound, providers) ELSE IdleRound]
    /\ health_status = [k \in ConfigRows |-> "unknown"]
    /\ got = NoGet

HealthNext ==
    \E r \in Rounds :
        \/ StartRound(r)
        \/ ProbeReturns(r, ProbeOutcomes)
        \/ ProbeThrows(r, ProbeOutcomes)
        \/ ProbeHangs(r, ProbeOutcomes)
        \/ PersistApplied(r)
        \/ PersistFails(r)

(***************************************************************************)
(* EVENT BUS                                                               *)
(***************************************************************************)

historyLimit == 1000

\* bound of the bus specifications: emit calls made by publishers
MaxPublish == 3

EventNames == {"lead:new", "lead:status_changed"}

\* Handler functions passed to subscribe, named by what they do when called:
\* return, fail, or publish a follow-up event from inside the handler (once:
\* not for a follow-up event). A failing handler either throws synchronously
\* or returns a rejected promise (FailModes).
Handlers == {"returns", "fails", "publishes"}
FailModes == {"throw", "reject"}
FollowUpEvent == "lead:new"

Payload(n, nested) == [id |-> n, nested |-> nested]

\* The bus as one emit call sees and changes it. thrown: an exception is
\* propagating out of the code that ran last; rejected: a promise it returned
\* was rejected.
BusState ==
    [history |-> history, delivered |-> <<>>, emitted |-> emitted,
     thrown |-> FALSE, rejected |-> FALSE]

\* Mutant of PushHistory: the trim keeps the first historyLimit entries
PushHistoryKeepOldest(h, event, data) ==
    LET pushed == Append(h, [event |-> event, data |-> data])
    IN  IF Len(pushed) > historyLimit THEN SubSeq(pushed, 1, historyLimit) ELSE pushed

\* emit, lines 24-33: push, then trim to the last historyLimit entries
PushHistory(h, event, data) ==
    LET pushed == Append(h, [event |-> event, data |-> data])
    IN  IF Len(pushed) > historyLimit THEN SliceLast(pushed, historyLimit) ELSE pushed

RECURSIVE Emit(_, _, _, _, _)
RECURSIVE CallListeners(_, _, _, _, _, _, _)
RECURSIVE Handler(_, _, _, _, _, _)

\* Mutant of WrappedHandler: the handler is registered without the wrapper
UnwrappedHandler(ls, mode, b, h, event, data) == Handler(ls, mode, b, h, event, data)

\* subscribe, lines 42-51: the wrapper awaits the handler inside try/catch; a
\* synchronous throw and a rejection both end in the catch, nothing propagates
WrappedHandler(ls, mode, b, h, event, data) ==
    [Handler(ls, mode, b, h, event, data) EXCEPT !.thrown = FALSE, !.rejected = FALSE]

\* the handler function itself, called with the event's data
Handler(ls, mode, b, h, event, data) ==
    LET called == [b EXCEPT !.delivered =
                      Append(@, [handler |-> h, event |-> event, data |-> data])]
    IN  CASE h = "fails" /\ mode = "throw" -> [called EXCEPT !.thrown = TRUE]
          [] h = "fails" /\ mode = "reject" -> [called EXCEPT !.rejected = TRUE]
          [] h = "publishes" /\ ~data.nested ->
                Emit(ls, mode, called, FollowUpEvent, Payload(called.emitted + 1, TRUE))
          [] OTHER -> called

\* EventEmitter.emit: the listeners registered at the time of the call, in
\* registration order; an exception thrown by a listener ends the call, a
\* rejected promise returned by a listener is ignored
CallListeners(ls, mode, b, snapshot, i, event, data) ==
    IF i > Len(snapshot) \/ b.thrown THEN b
    ELSE CallListeners(ls, mode,
                       WrappedHandler(ls, mode, [b EXCEPT !.rejected = FALSE],
                                      snapshot[i], event, data),
                       snapshot, i + 1, event, data)

\* EventBus.emit(event, data)
Emit(ls, mode, b, event, data) ==
    LET stored == [b EXCEPT !.history = PushHistory(@, event, data),
                            !.emitted = @ + 1]
    IN  CallListeners(ls, mode, stored, ls[event], 1, event, data)

Subscribed == UNION {Range(listeners[e]) : e \in EventNames}

\* subscribe(event, handler): this.on(event, wrappedHandler)
Subscribe(event, h) ==
    /\ h \notin Subscribed
    /\ listeners' = [listeners EXCEPT ![event] = Append(@, h)]
    /\ UNCHANGED <<history, delivered, emitted, published, lastEmit>>
    /\ UNCHANGED <<regVars, ingestVars>>

\* the function subscribe returned: this.off(event, wrappedHandler)
Unsubscribe(event, h) ==
    /\ h \in Range(listeners[event])
    /\ listeners' = [listeners EXCEPT ![event] = SelectSeq(@, LAMBDA x : x # h)]
    /\ UNCHANGED <<history, delivered, emitted, published, lastEmit>>
    /\ UNCHANGED <<regVars, ingestVars>>

\* a publisher calls eventBus.emit(event, data); the whole call, the handlers
\* it runs and the emit calls they make included, is one synchronous step
Publish(event, mode) ==
    /\ published < MaxPublish
    /\ LET b == Emit(listeners, mode, BusState, event, Payload(emitted + 1, FALSE))
       IN  /\ history' = b.history
           /\ delivered' = b.delivered
           /\ emitted' = b.emitted
           /\ lastEmit' = IF b.thrown THEN "threw"
                          ELSE IF Len(listeners[event]) > 0 THEN "true" ELSE "false"
    /\ published' = published + 1
    /\ UNCHANGED listeners
    /\ UNCHANGED <<regVars, ingestVars>>

BusInit ==
    /\ listeners = [e \in EventNames |-> <<>>]
    /\ history = <<>>
    /\ delivered = <<>>
    /\ emitted = 0
    /\ published = 0
    /\ lastEmit = "none"

\* The bus after n earlier emit calls made while nothing was subscribed: an empty
\* history, or one that the next emit calls fill beyond historyLimit.
EarlierEmits == {0, historyLimit - 1, historyLimit}

HistoryInit ==
    /\ listeners = [e \in EventNames |-> <<>>]
    /\ \E n \in EarlierEmits :
          /\ history = [i \in 1..n |->
                           [event |-> IF i % 2 = 0 THEN "lead:new" ELSE "lead:status_changed",
                            data |-> Payload(i, FALSE)]]
          /\ emitted = n
    /\ delivered = <<>>
    /\ published = 0
    /\ lastEmit = "none"

BusNext ==
    \/ \E e \in EventNames, h \in Handlers : Subscribe(e, h)
    \/ \E e \in EventNames, h \in Handlers : Unsubscribe(e, h)
    \/ \E e \in EventNames, mode \in FailModes : Publish(e, mode)

(***************************************************************************)
(* JAVASCRIPT VALUES                                                       *)
(* A number is [k |-> "num", v |-> hundredths], NaN, Infinity or -Infinity.*)
(* A field of the classifier's JSON is a number (or a numeric string), the *)
(* string "Infinity" / "-Infinity", some other value ("junk"), or missing. *)
(***************************************************************************)

Num(v) == [k |-> "num", v |-> v]
NaN == [k |-> "nan", v |-> 0]
Infinity == [k |-> "inf", v |-> 0]
NegInfinity == [k |-> "ninf", v |-> 0]
Undefined == [k |-> "undefined", v |-> 0]
Junk == [k |-> "junk", v |-> 0]

\* parseInt(x): the integer part of a number or numeric string, else NaN
\* (parseInt("Infinity") is NaN)
ParseInt(x) ==
    IF x.k = "num"
    THEN Num(IF x.v >= 0 THEN (x.v \div 100) * 100 ELSE -(((-x.v) \div 100) * 100))
    ELSE NaN

\* parseFloat(x)
ParseFloat(x) ==
    CASE x.k = "num" -> x
      [] x.k = "inf" -> Infinity
      [] x.k = "ninf" -> NegInfinity
      [] OTHER -> NaN

\* x || d for numbers: NaN and 0 are falsy
OrElse(x, d) == IF x.k = "nan" \/ (x.k = "num" /\ x.v = 0) THEN d ELSE x

\* a >= b, a > b for numbers that are not NaN
Geq(a, b) ==
    CASE a.k = "inf" -> TRUE
      [] b.k = "ninf" -> TRUE
      [] a.k = "ninf" -> FALSE
      [] b.k = "inf" -> FALSE
      [] OTHER -> a.v >= b.v
Gt(a, b) == ~Geq(b, a)

MathMax(a, b) == IF Geq(a, b) THEN a ELSE b
MathMin(a, b) == IF Geq(a, b) THEN b ELSE a

(***************************************************************************)
(* CLASSIFICATION ADAPTER                                                  *)
(***************************************************************************)

validIntents == {"buying", "selling", "suing", "asking", "complaining", "scheduling", "other"}
validPersonas == {"shark", "empath", "concierge", "professional", "closer"}
validVerticals == {"law", "real_estate", "ecommerce", "consulting", "services", "other"}

validateIntent(intent) == IF intent \in validIntents THEN intent ELSE "other"
validatePersona(persona) == IF persona \in validPersonas THEN persona ELSE "professional"
validateVertical(vertical) == IF vertical \in validVerticals THEN vertical ELSE "other"

preferredLanguage == "en"

\* Mutant of Clamp: the upper limit is not applied
ClampFromBelow(lo, hi, x) == MathMax(Num(lo), x)

\* Math.min(hi, Math.max(lo, x)), limits in hundredths
Clamp(lo, hi, x) == MathMin(Num(hi), MathMax(Num(lo), x))

\* classifyLead, lines 98-110: the result built from the parsed JSON object
Normalize(result) ==
    [intent |-> validateIntent(result.intent),
     urgency |-> Clamp(100, 1000, OrElse(ParseInt(result.urgency), Num(500))),
     estimatedValue |-> OrElse(ParseFloat(result.estimatedValue), Num(0)),
     persona |-> validatePersona(result.persona),
     vertical |-> validateVertical(result.vertical),
     language |-> IF result.language # "" THEN result.language ELSE preferredLanguage,
     score |-> Clamp(100, 10000, OrElse(ParseInt(result.score), Num(5000))),
     conversionProbability |->
         Clamp(0, 100, OrElse(ParseFloat(result.conversionProbability), Num(50))),
     summary |-> ""]

\* Mutant of DefaultResult: the catch block answers with the defaults of the
\* normal path
DefaultResultAsNormalized ==
    [intent |-> "other", urgency |-> Num(500), estimatedValue |-> Num(0),
     persona |-> "professional", vertical |-> "other", language |-> preferredLanguage,
     score |-> Num(5000), conversionProbability |-> Num(50), summary |-> ""]

\* classifyLead, lines 116-128: the result of the catch block
DefaultResult ==
    [intent |-> "other", urgency |-> Num(500), estimatedValue |-> Num(0),
     persona |-> "professional", vertical |-> "other", language |-> preferredLanguage,
     score |-> Num(3000), conversionProbability |-> Num(30),
     summary |-> "Classification failed - manual review needed"]

\* What the external call does: it rejects ("throws": a network or API error;
\* "timeout": the client's request timeout), it answers with content that
\* cannot be used ("malformed": not JSON, no choices, JSON null: the parse or
\* the first field access throws), or it answers with a JSON object.
FailureKinds == {"throws", "timeout", "malformed"}
Failure(kind) == [kind |-> kind, result |-> <<>>]
Answer(object) == [kind |-> "object", result |-> <<object>>]

\* classifyLead(rawData): everything runs inside try/catch
classifyLead(outcome) ==
    IF outcome.kind = "object" THEN Normalize(outcome.result[1]) ELSE DefaultResult

(***************************************************************************)
(* INGESTION: POST /ingest                                                 *)
(***************************************************************************)

Requests == {"r1", "r2"}

\* req.body: absent (null or undefined), or an object given by its fields
NoBody == [present |-> FALSE, fields |-> <<>>]
Object(fields) == [present |-> TRUE, fields |-> fields]
Field(obj, key) == IF key \in DOMAIN obj THEN obj[key] ELSE ""

\* a || b || ... || null over strings: the first non-empty one, "" for null
FirstOf(values) ==
    LET hits == {i \in 1..Len(values) : values[i] # ""}
    IN  IF hits = {} THEN "" ELSE values[CHOOSE i \in hits : \A j \in hits : i <= j]

\* detectChannel(req)
detectChannel(headers) ==
    CASE headers.userAgent = "whatsapp" -> "whatsapp"
      [] headers.userAgent = "twilio" -> "sms"
      [] headers.xFbSignature # "" -> "facebook"
      [] headers.xTelegramToken # "" -> "telegram"
      [] OTHER -> "web"

\* extractIdentifier(rawData), for an object
extractIdentifier(o) ==
    FirstOf(<<Field(o, "phone"), Field(o, "from"), Field(o, "email"),
              Field(o, "sender"), Field(o, "customer_phone")>>)

\* extractContactInfo(rawData)
extractContactInfo(o) ==
    [name |-> FirstOf(<<Field(o, "name"), Field(o, "contact_name"),
                        Field(o, "customer_name"), Field(o, "sender_name")>>),
     phone |-> FirstOf(<<Field(o, "phone"), Field(o, "from"),
                         Field(o, "customer_phone"), Field(o, "mobile")>>),
     email |-> FirstOf(<<Field(o, "email"), Field(o, "customer_email")>>)]

\* Mutant of calculatePriority: the sum is not capped
calculatePriorityUncapped(c) ==
    5 + (IF Geq(c.urgency, Num(800)) THEN 3 ELSE IF Geq(c.urgency, Num(500)) THEN 1 ELSE 0)
      + (IF Gt(c.estimatedValue, Num(5000000)) THEN 2
         ELSE IF Gt(c.estimatedValue, Num(1000000)) THEN 1 ELSE 0)
      + (IF c.intent = "buying" THEN 1 ELSE 0) + (IF c.intent = "suing" THEN 2 ELSE 0)

\* calculatePriority(classification)
calculatePriority(c) ==
    LET urgencyBonus == IF Geq(c.urgency, Num(800)) THEN 3
                        ELSE IF Geq(c.urgency, Num(500)) THEN 1 ELSE 0
        valueBonus == IF Gt(c.estimatedValue, Num(5000000)) THEN 2
                      ELSE IF Gt(c.estimatedValue, Num(1000000)) THEN 1 ELSE 0
        intentBonus == (IF c.intent = "buying" THEN 1 ELSE 0)
                       + (IF c.intent = "suing" THEN 2 ELSE 0)
        priority == 5 + urgencyBonus + valueBonus + intentBonus
    IN  IF priority < 10 THEN priority ELSE 10

NoHeaders == [xSourceChannel |-> "", xSourceId |-> "", xSourceProvider |-> "",
              userAgent |-> "", xFbSignature |-> "", xTelegramToken |-> ""]

\* the request before it arrives
NoRequest ==
    [pc |-> "idle", body |-> NoBody, headers |-> NoHeaders, sourceChannel |-> "",
     sourceIdentifier |-> "", sourceProvider |-> "", classifier |-> <<>>,
     classification |-> <<>>, leadId |-> 0, thrownBy |-> "", res |-> <<>>]

\* res.status(...).json(...)
Response(r, status, error, leadId, summary) ==
    [status |-> status, error |-> error, requestId |-> r, leadId |-> leadId,
     classification |-> summary]

\* the catch block of the route: 500 'Ingestion failed'
Failed(r, q, cause) ==
    [q EXCEPT !.pc = "done", !.thrownBy = cause,
              !.res = <<Response(r, 500, "Ingestion failed", 0, <<>>)>>]

\* lines 23-51: the request arrives and runs up to the await of classifyLead
Receive(r, Bodies, HeaderSets) ==
    /\ req[r].pc = "idle"
    /\ \E body \in Bodies, headers \in HeaderSets :
          LET sourceChannel == IF headers.xSourceChannel # "" THEN headers.xSourceChannel
                               ELSE detectChannel(headers)
              \* extractIdentifier reads rawData.phone: a TypeError when rawData is absent
              identifierThrows == headers.xSourceId = "" /\ ~body.present
              sourceIdentifier == IF headers.xSourceId # "" THEN headers.xSourceId
                                  ELSE extractIdentifier(body.fields)
              sourceProvider == IF headers.xSourceProvider # ""
                                THEN headers.xSourceProvider ELSE "unknown"
              arrived == [req[r] EXCEPT !.body = body, !.headers = headers]
          IN  req' = [req EXCEPT ![r] =
                 IF identifierThrows THEN Failed(r, arrived, "extractIdentifier")
                 ELSE IF ~body.present \/ DOMAIN body.fields = {}
                 THEN [arrived EXCEPT !.pc = "done", !.sourceChannel = sourceChannel,
                          !.res = <<Response(r, 400, "Empty payload", 0, <<>>)>>]
                 ELSE [arrived EXCEPT !.pc = "classifying",
                          !.sourceChannel = sourceChannel,
                          !.sourceIdentifier = sourceIdentifier,
                          !.sourceProvider = sourceProvider]]
    /\ UNCHANGED <<universal_leads_ledger, audit_log, busVars>>
    /\ UNCHANGED regVars

\* lines 48-101: classifyLead settles; the route sends the INSERT
Classified(r, Outcomes) ==
    /\ req[r].pc = "classifying"
    /\ \E outcome \in Outcomes :
          req' = [req EXCEPT ![r].pc = "inserting",
                             ![r].classifier = <<outcome>>,
                             ![r].classification = <<classifyLead(outcome)>>]
    /\ UNCHANGED <<universal_leads_ledger, audit_log, busVars>>
    /\ UNCHANGED regVars

\* the external call never settles: no timeout is set on the client or on the
\* call, so the await of classifyLead never resumes
ClassifierNeverAnswers(r) ==
    /\ req[r].pc = "classifying"
    /\ req' = [req EXCEPT ![r].pc = "waiting"]
    /\ UNCHANGED <<universal_leads_ledger, audit_log, busVars>>
    /\ UNCHANGED regVars

\* the row of the INSERT, lines 84-101
LeadRow(id, q) ==
    LET c == q.classification[1]
        contactInfo == extractContactInfo(q.body.fields)
    IN  [id |-> id,
         source_channel |-> q.sourceChannel,
         source_identifier |-> q.sourceIdentifier,
         source_provider |-> q.sourceProvider,
         raw_data |-> q.body.fields,
         contact_name |-> contactInfo.name,
         contact_phone |-> contactInfo.phone,
         contact_email |-> contactInfo.email,
         detected_intent |-> c.intent,
         detected_urgency |-> c.urgency,
         estimated_value |-> c.estimatedValue,
         required_persona |-> c.persona,
         business_vertical |-> c.vertical,
         primary_language |-> IF c.language # "" THEN c.language ELSE "en",
         lead_score |-> OrElse(c.score, Num(5000)),
         conversion_probability |-> OrElse(c.conversionProbability, Num(50)),
         status |-> "incoming"]

\* the INSERT is applied: RETURNING id; the route sends the audit INSERT.
\* DECIMAL(15,2) holds no infinite value: such an INSERT fails.
InsertApplied(r) ==
    /\ req[r].pc = "inserting"
    /\ req[r].classification[1].estimatedValue.k = "num"
    /\ LET id == Len(universal_leads_ledger) + 1
       IN  /\ universal_leads_ledger' = Append(universal_leads_ledger, LeadRow(id, req[r]))
           /\ req' = [req EXCEPT ![r].pc = "auditing", ![r].leadId = id]
    /\ UNCHANGED <<audit_log, busVars>>
    /\ UNCHANGED regVars

\* Mutant of InsertFails: the event is published although the INSERT failed
InsertFailsAndPublishes(r) ==
    /\ req[r].pc = "inserting"
    /\ req' = [req EXCEPT ![r] = Failed(r, req[r], "insert")]
    /\ LET b == Emit(listeners, "throw", BusState, "lead:new",
                     [leadId |-> 0, classification |-> req[r].classification[1],
                      sourceChannel |-> req[r].sourceChannel,
                      priority |-> calculatePriority(req[r].classification[1])])
       IN  /\ history' = b.history
           /\ delivered' = b.delivered
           /\ emitted' = b.emitted
           /\ lastEmit' = "true"
    /\ published' = published + 1
    /\ UNCHANGED <<universal_leads_ledger, audit_log, listeners>>
    /\ UNCHANGED regVars

\* the INSERT fails: db.query throws, the catch block answers 500
InsertFails(r) ==
    /\ req[r].pc = "inserting"
    /\ req' = [req EXCEPT ![r] = Failed(r, req[r], "insert")]
    /\ UNCHANGED <<universal_leads_ledger, audit_log, busVars>>
    /\ UNCHANGED regVars

\* the audit INSERT is applied; lines 119-140: emit 'lead:new', then 202
AuditApplied(r) ==
    /\ req[r].pc = "auditing"
    /\ LET c == req[r].classification[1]
           b == Emit(listeners, "throw", BusState, "lead:new",
                     [leadId |-> req[r].leadId, classification |-> c,
                      sourceChannel |-> req[r].sourceChannel,
                      priority |-> calculatePriority(c)])
       IN  /\ audit_log' = Append(audit_log,
                 [event_type |-> "lead_created", event_source |-> "api",
                  lead_id |-> req[r].leadId, classification |-> c])
           /\ history' = b.history
           /\ delivered' = b.delivered
           /\ emitted' = b.emitted
           /\ lastEmit' = IF Len(listeners["lead:new"]) > 0 THEN "true" ELSE "false"
           /\ req' = [req EXCEPT ![r].pc = "done",
                 ![r].res = <<Response(r, 202, "", req[r].leadId,
                                <<[intent |-> c.intent, urgency |-> c.urgency,
                                   persona |-> c.persona, language |-> c.language]>>)>>]
    /\ published' = published + 1
    /\ UNCHANGED <<universal_leads_ledger, listeners>>
    /\ UNCHANGED regVars

\* the audit INSERT fails: db.query throws, the catch block answers 500
AuditFails(r) ==
    /\ req[r].pc = "auditing"
    /\ req' = [req EXCEPT ![r] = Failed(r, req[r], "audit")]
    /\ UNCHANGED <<universal_leads_ledger, audit_log, busVars>>
    /\ UNCHANGED regVars

\* Request bodies: absent, {}, and objects with and without a contact field
Bodies == {NoBody, Object(<<>>), Object([phone |-> "+1234567890", text |-> "buy"]),
           Object([text |-> "hello"])}

\* Request headers: none of the recognised ones, or the explicit source headers
HeaderSets == {NoHeaders,
               [NoHeaders EXCEPT !.xSourceChannel = "whatsapp", !.xSourceId = "id-7",
                                 !.xSourceProvider = "whatsapp_business"]}

\* JSON objects the classifier may answer with: a well-formed one and one whose
\* fields are all out of their domains
WellFormed ==
    [intent |-> "buying", urgency |-> Num(800), estimatedValue |-> Num(50000000),
     persona |-> "closer", vertical |-> "real_estate", language |-> "he",
     score |-> Num(8000), conversionProbability |-> Num(70)]
OutOfDomain ==
    [intent |-> "purchase", urgency |-> Num(1500), estimatedValue |-> Num(-100),
     persona |-> "friendly", vertical |-> "legal", language |-> "",
     score |-> Junk, conversionProbability |-> Num(-50)]

Outcomes == {Failure(k) : k \in FailureKinds} \cup {Answer(WellFormed), Answer(OutOfDomain)}

\* Every combination of these field values, for the classification's domains
AnyObject ==
    [intent : {"suing", "SUING", ""},
     urgency : {Undefined, Num(-300), Num(50), Num(790), Num(15000), Infinity},
     estimatedValue : {Undefined, Num(-500000), Num(1200000), Infinity},
     persona : {"closer", "friendly", ""},
     vertical : {"real_estate", "legal"},
     language : {""},
     score : {Junk, Num(0), Num(-300), Num(5550), Num(15000)},
     conversionProbability : {Undefined, Num(-50), Num(0), Num(30), Num(250), Infinity}]

IngestInit ==
    /\ req = [r \in Requests |-> NoRequest]
    /\ universal_leads_ledger = <<>>
    /\ audit_log = <<>>

\* the gateway's handler is subscribed to 'lead:new' (subscribeToEvents)
GatewayInit ==
    /\ listeners = [e \in EventNames |-> IF e = "lead:new" THEN <<"returns">> ELSE <<>>]
    /\ history = <<>>
    /\ delivered = <<>>
    /\ emitted = 0
    /\ published = 0
    /\ lastEmit = "none"

IngestNext ==
    \E r \in Requests :
        \/ Receive(r, Bodies, HeaderSets)
        \/ Classified(r, Outcomes)
        \/ InsertApplied(r)
        \/ InsertFails(r)
        \/ AuditApplied(r)
        \/ AuditFails(r)

\* one request with a usable body, the classifier answering with any object
ClassifyNext ==
    \/ Receive("r1", {Object([text |-> "hello"])}, {NoHeaders})
    \/ Classified("r1", {Answer(o) : o \in AnyObject})
    \/ InsertApplied("r1")
    \/ InsertFails("r1")
    \/ AuditApplied("r1")
    \/ AuditFails("r1")

(***************************************************************************)
(* LEAD STATUS: PATCH /:id/status                                          *)
(***************************************************************************)

\* the clients that send a status update, one request each
Patchers == {"p1", "p2"}

\* req.params.id: the ids the first inserts return and one that no lead has
PatchIds == {1, 2, 3}

\* Mutant of validStatuses: one more value is accepted
validStatusesAndArchived ==
    {"incoming", "processing", "negotiating", "contract_sent", "paid", "lost",
     "archived"}

validStatuses ==
    {"incoming", "processing", "negotiating", "contract_sent", "paid", "lost"}

\* req.body.status: a valid value, a value outside the list, no value
PatchStatuses == {"processing", "paid", "archived", ""}

NoPatch == [pc |-> "idle", id |-> 0, status |-> "", code |-> 0]

\* UPDATE universal_leads_ledger SET status = $2 ... WHERE id = $1
updateStatus(table, id, status) ==
    [i \in 1..Len(table) |->
        IF table[i].id = id THEN [table[i] EXCEPT !.status = status] ELSE table[i]]

\* result.rowCount of that UPDATE
rowCount(table, id) == Cardinality({i \in 1..Len(table) : table[i].id = id})

\* the request arrives: lines 52-58, 400 for a status outside validStatuses,
\* otherwise up to the await of leadsDb.updateStatus
PatchReceive(p) ==
    /\ patch[p].pc = "idle"
    /\ \E id \in PatchIds, status \in PatchStatuses :
          patch' = [patch EXCEPT ![p] =
                       IF status \notin validStatuses
                       THEN [pc |-> "done", id |-> id, status |-> status, code |-> 400]
                       ELSE [pc |-> "updating", id |-> id, status |-> status,
                             code |-> 0]]
    /\ UNCHANGED <<clients, readyState, inbox, queried, coreVars, busVars, ingestVars>>

\* the UPDATE is applied: lines 62-73, 404 when no row matched, otherwise emit
\* 'lead:status_changed', then 200
UpdateApplied(p) ==
    /\ patch[p].pc = "updating"
    /\ IF rowCount(universal_leads_ledger, patch[p].id) = 0
       THEN /\ patch' = [patch EXCEPT ![p].pc = "done", ![p].code = 404]
            /\ UNCHANGED <<universal_leads_ledger, busVars>>
       ELSE LET b == Emit(listeners, "throw", BusState, "lead:status_changed",
                          [leadId |-> patch[p].id, status |-> patch[p].status,
                           reason |-> Null])
            IN  /\ universal_leads_ledger' =
                      updateStatus(universal_leads_ledger, patch[p].id, patch[p].status)
                /\ history' = b.history
                /\ delivered' = b.delivered
                /\ emitted' = b.emitted
                /\ lastEmit' = IF Len(listeners["lead:status_changed"]) > 0
                               THEN "true" ELSE "false"
                /\ published' = published + 1
                /\ patch' = [patch EXCEPT ![p].pc = "done", ![p].code = 200]
                /\ UNCHANGED listeners
    /\ UNCHANGED <<clients, readyState, inbox, queried, coreVars, req, audit_log>>

\* the UPDATE fails: db.query throws, the catch block answers 500
UpdateFails(p) ==
    /\ patch[p].pc = "updating"
    /\ patch' = [patch EXCEPT ![p].pc = "done", ![p].code = 500]
    /\ UNCHANGED <<clients, readyState, inbox, queried, coreVars, busVars, ingestVars>>

\* a handler is subscribed to each of the two events
StatusBusInit ==
    /\ listeners = [e \in EventNames |-> <<"returns">>]
    /\ history = <<>>
    /\ delivered = <<>>
    /\ emitted = 0
    /\ published = 0
    /\ lastEmit = "none"

\* ingestion of well-formed leads and status updates, in any order
StatusNext ==
    \/ \E r \in Requests :
          \/ Receive(r, {Object([text |-> "hello"])}, {NoHeaders})
          \/ Classified(r, {Answer(WellFormed)})
          \/ InsertApplied(r)
          \/ InsertFails(r)
          \/ AuditApplied(r)
          \/ AuditFails(r)
    \/ \E p \in Patchers :
          \/ PatchReceive(p)
          \/ UpdateApplied(p)
          \/ UpdateFails(p)

(***************************************************************************)
(* REAL-TIME GATEWAY: the WebSocket server                                 *)
(***************************************************************************)

Sockets == {"s1", "s2"}

\* the event names subscribeToEvents subscribes to
Forwarded == {"lead:new", "lead:status_changed", "agent:spawned", "message:sent",
              "voice:call_started", "contract:sent", "signature:completed",
              "payment:received", "system:error"}

\* names of the Events table that the gateway does not subscribe to
NotForwarded == {"lead:updated", "agent:completed"}

\* the handler subscribeToEvents passes to eventBus.subscribe: it calls broadcast
\* and returns
BroadcastHandler == "broadcasts"

\* readyState of a socket: "open" and "stalled" are WebSocket.OPEN, "stalled"
\* being a socket whose connection is lost before its 'error' event: what is sent
\* to it does not arrive. A socket that is "none" has not connected yet.
OPEN == {"open", "stalled"}

\* JSON.stringify of a message whose payload is a JSON value (the payloads of
\* this model are: integers and booleans): the text the listener parses back
Stringify(message) == [text |-> message]

Without(seq, s) == SelectSeq(seq, LAMBDA x : x # s)

\* client.send(messageStr) on a socket whose readyState is OPEN: the text arrives
\* unless the connection is lost; send reports nothing to its caller either way
Send(box, s, state, messageStr) ==
    IF state[s] = "open" THEN [box EXCEPT ![s] = Append(@, messageStr)] ELSE box

RECURSIVE ForEachClientUntilClosed(_, _, _, _, _)
\* Mutant of ForEachClient: the loop ends at the first socket that is not open
ForEachClientUntilClosed(cs, i, state, box, messageStr) ==
    IF i > Len(cs) \/ state[cs[i]] \notin OPEN THEN box
    ELSE ForEachClientUntilClosed(cs, i + 1, state,
             Send(box, cs[i], state, messageStr),
             messageStr)

RECURSIVE ForEachClient(_, _, _, _, _)
\* broadcast, lines 1162-1166: clients.forEach, client.send when readyState is OPEN
ForEachClient(cs, i, state, box, messageStr) ==
    IF i > Len(cs) THEN box
    ELSE ForEachClient(cs, i + 1, state,
             IF state[cs[i]] \in OPEN THEN Send(box, cs[i], state, messageStr) ELSE box,
             messageStr)

\* the message a handler of subscribeToEvents builds from the event it receives
Message(event, data, now) == [type |-> event, data |-> data, timestamp |-> now]

RECURSIVE BroadcastAll(_, _, _, _, _, _)
\* the broadcasts of one emit call: one for every invocation of the gateway's
\* handler, in invocation order
BroadcastAll(log, i, cs, state, box, now) ==
    IF i > Len(log) THEN box
    ELSE BroadcastAll(log, i + 1, cs, state,
             IF log[i].handler = BroadcastHandler
             THEN ForEachClient(cs, 1, state, box,
                                Stringify(Message(log[i].event, log[i].data, now)))
             ELSE box,
             now)

\* wss.on('connection'): the socket joins the Set and is sent the welcome message
Connect(s) ==
    /\ readyState[s] = "none"
    /\ clients' = Append(clients, s)
    /\ readyState' = [readyState EXCEPT ![s] = "open"]
    /\ inbox' = [inbox EXCEPT ![s] = Append(@, Stringify([type |-> "connected"]))]
    /\ UNCHANGED <<queried, patch, coreVars, busVars, ingestVars>>

\* the connection of an open socket is lost; nothing has told the server yet
Stall(s) ==
    /\ readyState[s] = "open"
    /\ readyState' = [readyState EXCEPT ![s] = "stalled"]
    /\ UNCHANGED <<clients, inbox, queried, patch, coreVars, busVars, ingestVars>>

\* the closing handshake of a socket starts: readyState is CLOSING, the 'close'
\* event has not been emitted yet
StartClose(s) ==
    /\ readyState[s] \in OPEN
    /\ readyState' = [readyState EXCEPT ![s] = "closing"]
    /\ UNCHANGED <<clients, inbox, queried, patch, coreVars, busVars, ingestVars>>

\* ws.on('close'): clients.delete(ws)
OnClose(s) ==
    /\ readyState[s] \in OPEN \cup {"closing"}
    /\ readyState' = [readyState EXCEPT ![s] = "closed"]
    /\ clients' = Without(clients, s)
    /\ UNCHANGED <<inbox, queried, patch, coreVars, busVars, ingestVars>>

\* ws.on('error'): clients.delete(ws); the socket is on its way to closing
OnError(s) ==
    /\ readyState[s] \in OPEN /\ s \in Range(clients)
    /\ readyState' = [readyState EXCEPT ![s] = "closing"]
    /\ clients' = Without(clients, s)
    /\ UNCHANGED <<inbox, queried, patch, coreVars, busVars, ingestVars>>

\* a publisher calls eventBus.emit(event, data) while the gateway is subscribed
GatewayPublish(event) ==
    /\ published < MaxPublish
    /\ LET b == Emit(listeners, "throw", BusState, event, Payload(emitted + 1, FALSE))
       IN  /\ history' = b.history
           /\ delivered' = b.delivered
           /\ emitted' = b.emitted
           /\ lastEmit' = IF Len(listeners[event]) > 0 THEN "true" ELSE "false"
           /\ inbox' = BroadcastAll(b.delivered, 1, clients, readyState, inbox,
                                    published + 1)
    /\ published' = published + 1
    /\ UNCHANGED <<listeners, clients, readyState, queried, patch, coreVars, ingestVars>>

\* Array.prototype.slice(-limit) for limit >= 0: -0 is 0, so slice(-0) is the
\* whole array
SliceFromEnd(s, limit) == IF limit = 0 THEN s ELSE SliceLast(s, limit)

\* limits a caller may pass to getHistory / getHistoryByType
Limits == {0, 1, 2, 5}

\* getHistory(limit) when name is Null, getHistoryByType(name, limit) otherwise
HistoryQuery(name, limit) ==
    /\ queried' = [made |-> TRUE, name |-> name, limit |-> limit,
                   result |-> SliceFromEnd(
                      IF name = Null THEN history
                      ELSE SelectSeq(history, LAMBDA e : e.event = name), limit)]
    /\ queried' # queried
    /\ UNCHANGED <<clients, readyState, inbox, patch, coreVars, busVars, ingestVars>>

\* the events published in the gateway specification
GatewayEvents == {"lead:new", "system:error", "lead:updated"}

\* no history query made yet
NoQuery == [made |-> FALSE, name |-> Null, limit |-> 0, result |-> <<>>]

DashboardInit ==
    /\ clients = <<>>
    /\ readyState = [s \in Sockets |-> "none"]
    /\ inbox = [s \in Sockets |-> <<>>]
    /\ queried = NoQuery
    /\ patch = [p \in Patchers |-> NoPatch]

\* after initWebSocket: subscribeToEvents has subscribed the gateway's handlers
SubscribedInit ==
    /\ listeners = [e \in Forwarded \cup NotForwarded |->
                       IF e \in Forwarded THEN <<BroadcastHandler>> ELSE <<>>]
    /\ history = <<>>
    /\ delivered = <<>>
    /\ emitted = 0
    /\ published = 0
    /\ lastEmit = "none"

GatewayNext ==
    \/ \E s \in Sockets : Connect(s)
    \/ \E s \in Sockets : Stall(s)
    \/ \E s \in Sockets : StartClose(s)
    \/ \E s \in Sockets : OnClose(s)
    \/ \E s \in Sockets : OnError(s)
    \/ \E e \in GatewayEvents : GatewayPublish(e)

(***************************************************************************)
(* Idle states of the parts a specification does not exercise              *)
(***************************************************************************)

BusIdle == BusInit

IngestIdle == IngestInit

RegistryIdle ==
    /\ provider_configurations =
          [k \in ConfigRows |-> [is_default |-> FALSE, is_active |-> k \in ActiveRows]]
    /\ providers = <<>>
    /\ sd = [c \in Callers |-> IdleCall]
    /\ HealthIdle

InitRegistry == RegistryInit /\ HealthIdle /\ BusIdle /\ IngestIdle /\ DashboardInit

SpecRegistry == InitRegistry /\ [][RegistryNext]_vars

InitBus == BusInit /\ RegistryIdle /\ IngestIdle /\ DashboardInit

SpecBus == InitBus /\ [][BusNext]_vars

InitIngest == IngestInit /\ GatewayInit /\ RegistryIdle /\ DashboardInit

SpecIngest == InitIngest /\ [][IngestNext]_vars

SpecClassify == InitIngest /\ [][ClassifyNext]_vars

\* Classifier answers on both sides of every threshold of calculatePriority
PriorityObjects ==
    [intent : {"suing", "buying", "asking"},
     urgency : {Num(100), Num(400), Num(500), Num(700), Num(800), Num(1000)},
     estimatedValue : {Num(0), Num(1000000), Num(1000001), Num(5000000), Num(5000001)},
     persona : {"closer"}, vertical : {"law"}, language : {"en"},
     score : {Num(5000)}, conversionProbability : {Num(50)}]

PriorityNext ==
    \/ Receive("r1", {Object([text |-> "hello"])}, {NoHeaders})
    \/ Classified("r1", {Answer(o) : o \in PriorityObjects})
    \/ InsertApplied("r1")
    \/ InsertFails("r1")
    \/ AuditApplied("r1")
    \/ AuditFails("r1")

SpecPriority == InitIngest /\ [][PriorityNext]_vars

\* Request headers with and without the explicit channel header and each marker
\* detectChannel looks for; userAgent names the marker the lower-cased
\* user-agent contains ("mozilla": none of them)
ChannelHeaders ==
    {h \in [xSourceChannel : {"", "email"}, xSourceId : {""}, xSourceProvider : {""},
            userAgent : {"", "whatsapp", "twilio", "mozilla"},
            xFbSignature : {"", "sha1=abc"}, xTelegramToken : {"", "secret"}] : TRUE}

ChannelNext ==
    \/ Receive("r1", {Object([text |-> "hello"])}, ChannelHeaders)
    \/ Classified("r1", {Answer(WellFormed), Failure("throws")})
    \/ InsertApplied("r1")
    \/ InsertFails("r1")
    \/ AuditApplied("r1")
    \/ AuditFails("r1")

SpecChannel == InitIngest /\ [][ChannelNext]_vars

\* a request's steps, the classifier possibly never answering; every step a
\* request can take is eventually taken
RequestStep(r) ==
    \/ Receive(r, Bodies, HeaderSets)
    \/ Classified(r, Outcomes)
    \/ ClassifierNeverAnswers(r)
    \/ InsertApplied(r)
    \/ InsertFails(r)
    \/ AuditApplied(r)
    \/ AuditFails(r)

RequestNext == \E r \in Requests : RequestStep(r)

SpecIngestFair ==
    /\ InitIngest
    /\ [][RequestNext]_vars
    /\ \A r \in Requests : WF_vars(RequestStep(r))

\* the history under publishing, with the handler that publishes follow-ups as
\* the only subscriber
HistoryNext ==
    \/ \E e \in EventNames : Subscribe(e, "publishes")
    \/ \E e \in EventNames : Unsubscribe(e, "publishes")
    \/ \E e \in EventNames, mode \in FailModes : Publish(e, mode)

InitHistory == HistoryInit /\ RegistryIdle /\ IngestIdle /\ DashboardInit

SpecHistory == InitHistory /\ [][HistoryNext]_vars

\* the registry loaded from the seed rows: vapi and sendgrid are the defaults
SeededInit ==
    /\ RegistryInit
    /\ \A k \in ConfigRows :
          provider_configurations[k].is_default =
             (k \in {Key("voice", "vapi"), Key("email", "sendgrid")})

\* setDefault calls that never overlap on a type: one caller switches the voice
\* providers (or names an unknown type), the other the email providers
TypesOf == [c \in Callers |-> IF c = "c1" THEN {"voice", "fax"} ELSE {"email"}]

PerTypeNext ==
    \E c \in Callers :
        \/ RejectDefault(c)
        \/ CallSetDefault(c, {a \in SetDefaultArgs : a[1] \in TypesOf[c]})
        \/ ClearApplied(c)
        \/ SetApplied(c)
        \/ QueryFails(c)
        \/ UpdateMemory(c)

SpecPerType == InitRegistry /\ [][PerTypeNext]_vars

\* setDefault calls of two callers that name registered providers of any type,
\* with a storage that never fails: only the order of the steps varies
ConcurrentNext ==
    \E c \in Callers :
        \/ CallSetDefault(c, ActiveRows)
        \/ ClearApplied(c)
        \/ SetApplied(c)
        \/ UpdateMemory(c)

SpecConcurrent == InitRegistry /\ [][ConcurrentNext]_vars

InitStatus == RegistryIdle /\ HealthIdle /\ StatusBusInit /\ IngestInit /\ DashboardInit

SpecStatus == InitStatus /\ [][StatusNext]_vars

InitGateway == SubscribedInit /\ RegistryIdle /\ IngestIdle /\ DashboardInit

SpecGateway == InitGateway /\ [][GatewayNext]_vars

\* history queries between publishes, nothing subscribed
QueryNext ==
    \/ \E e \in EventNames, mode \in FailModes : Publish(e, mode)
    \/ \E name \in EventNames \cup {Null}, limit \in Limits : HistoryQuery(name, limit)

SpecQuery == InitBus /\ [][QueryNext]_vars

InitHealth == SeededInit /\ HealthInit /\ BusIdle /\ IngestIdle /\ DashboardInit

SpecHealth == InitHealth /\ [][HealthNext]_vars

\* the round of startup and one on-demand round; every step that can be taken
\* is eventually taken (the event loop resumes a call whose await has settled)
RoundStep(r) ==
    \/ StartRound(r)
    \/ ProbeReturns(r, ProbeOutcomes)
    \/ ProbeThrows(r, ProbeOutcomes)
    \/ ProbeHangs(r, ProbeOutcomes)
    \/ PersistApplied(r)
    \/ PersistFails(r)

RoundNext == \E r \in {"startup", "manual"} : RoundStep(r)

SpecHealthFair ==
    /\ InitHealth
    /\ [][RoundNext]_vars
    /\ \A r \in {"startup", "manual"} : WF_vars(RoundStep(r))

\* get calls while the round of startup runs, from every loaded registry
LookupNext ==
    \/ \E type \in GetTypes, name \in GetNames : GetCall(type, name)
    \/ ProbeReturns("startup", ProbeOutcomes)
    \/ ProbeThrows("startup", ProbeOutcomes)
    \/ ProbeHangs("startup", ProbeOutcomes)
    \/ PersistApplied("startup")
    \/ PersistFails("startup")

InitLookup == RegistryInit /\ HealthInit /\ BusIdle /\ IngestIdle /\ DashboardInit

SpecLookup == InitLookup /\ [][LookupNext]_vars

(***************************************************************************)
(* Properties of the provider registry                                     *)
(***************************************************************************)

MemoryDefaults(provs, type) ==
    {i \in 1..Len(provs) : StartsWithType(provs[i].key, type) /\ provs[i].isDefault}

\* C1: in every reachable state of the registry, whatever setDefault calls have
\* run or are running, each type has at most one provider whose isDefault flag
\* is true in the in-memory Map.
C1_AtMostOneDefaultInMemory ==
    \A type \in Types : Cardinality(MemoryDefaults(providers, type)) <= 1

\* C1 witness: two setDefault calls on one type interleaved (the table holds two
\* defaults of that type) and one of them has already rewritten the Map.
C1_Witness ==
    \E type \in Types, c \in Callers :
        /\ Cardinality(DefaultsOf(provider_configurations, type)) = 2
        /\ sd[c].status = 200 /\ sd[c].type = type
        /\ Cardinality(MemoryDefaults(providers, type)) = 1

\* C2 (as claimed): no reachable state of the table has two rows of one type with
\* is_default = TRUE.
C2_AtMostOneDefaultPersisted ==
    \A type \in Types : Cardinality(DefaultsOf(provider_configurations, type)) <= 1

\* C3: get(type) changes its answer only in the step in which a setDefault on that
\* type rewrites the Map, and then, for a registered name, to the named instance:
\* while a setDefault is between its writes, get(type) still answers what it
\* answered before, never the first-registered fallback of a cleared default.
C3_GetSeesOldOrNew ==
    [][\A type \in Types :
          Get(providers', type, Null) # Get(providers, type, Null) =>
             \E c \in Callers :
                /\ sd[c].pc = "updating" /\ sd'[c].pc = "idle"
                /\ sd[c].type = type
                /\ (Key(type, sd[c].name) \in ActiveRows =>
                       Get(providers', type, Null) = Key(type, sd[c].name))]_vars

\* C3 witness: a setDefault for a registered name is between its two writes (the
\* table has no default of the type) and get(type) answers the flagged default,
\* which is not the first registered provider of the type.
C3_Witness ==
    \E c \in Callers :
        /\ sd[c].pc = "setting"
        /\ Key(sd[c].type, sd[c].name) \in ActiveRows
        /\ DefaultsOf(provider_configurations, sd[c].type) = {}
        /\ MemoryDefaults(providers, sd[c].type) # {}
        /\ \E i \in 1..Len(providers) :
              /\ StartsWithType(providers[i].key, sd[c].type)
              /\ ~providers[i].isDefault
              /\ \A j \in MemoryDefaults(providers, sd[c].type) : i < j

\* C15: when a setDefault(type, name) for a registered pair has completed and no
\* other setDefault on the type was in flight during it, the named provider is
\* the only default of the type in the Map and in the table, and get(type)
\* returns it; so after setDefault(voice, twilio) then setDefault(voice, vapi),
\* get(voice) is vapi and only vapi is default.
C15_SetDefaultTakesEffect ==
    \A c \in Callers :
        LET k == Key(sd[c].type, sd[c].name)
        IN  sd[c].pc = "idle" /\ sd[c].status = 200 /\ k \in ActiveRows =>
               /\ {providers[i].key : i \in MemoryDefaults(providers, sd[c].type)} = {k}
               /\ DefaultsOf(provider_configurations, sd[c].type) = {k}
               /\ Get(providers, sd[c].type, Null) = k

\* C15 witness: the registry was loaded with twilio as the voice default (vapi is
\* the second voice entry of the Map) and a completed setDefault(voice, vapi) made
\* vapi the default, while a setDefault on the email type is between its writes.
C15_Witness ==
    /\ sd["c1"].pc = "idle" /\ sd["c1"].status = 200
    /\ sd["c1"].type = "voice" /\ sd["c1"].name = "vapi"
    /\ \E i, j \in 1..Len(providers) :
          /\ i < j
          /\ providers[i].key = Key("voice", "twilio")
          /\ providers[j].key = Key("voice", "vapi")
          /\ providers[j].isDefault /\ ~providers[i].isDefault
    /\ sd["c2"].pc = "setting"

\* C16: a get call never throws and changes neither the Map nor the table; what it
\* returns is nothing or an instance registered under the type asked for; with a
\* name, the instance registered under (type, name), or nothing; without one, the
\* first instance flagged default for the type, else the first registered
\* instance of the type, else nothing; and the answer is the same whatever the
\* health of the providers.
C16_GetIsPureLookup ==
    [][got' # got =>
          LET g == got'
              named == g.name \notin {Null, ""}
              ofType == {i \in 1..Len(providers) : providers[i].key[1] = g.type}
              flagged == {i \in ofType : providers[i].isDefault}
              unhealthy == [i \in 1..Len(providers) |->
                               [providers[i] EXCEPT !.isHealthy = FALSE]]
          IN  /\ ~g.threw
              /\ providers' = providers
              /\ provider_configurations' = provider_configurations
              /\ \/ g.result = Null
                 \/ /\ g.result[1] = g.type
                    /\ \E i \in 1..Len(providers) : providers[i].key = g.result
              /\ named =>
                    g.result = IF \E i \in ofType : providers[i].key[2] = g.name
                               THEN <<g.type, g.name>> ELSE Null
              /\ ~named /\ flagged # {} =>
                    \E i \in flagged : /\ g.result = providers[i].key
                                       /\ \A j \in flagged : i <= j
              /\ ~named /\ flagged = {} /\ ofType # {} =>
                    \E i \in ofType : /\ g.result = providers[i].key
                                      /\ \A j \in ofType : i <= j
              /\ ~named /\ ofType = {} => g.result = Null
              /\ g.result = Get(unhealthy, g.type, g.name)]_vars

\* C16 witness: get('voice') returned the first registered voice provider while no
\* voice provider was flagged default, in the Map or in the table, and every
\* voice provider was unhealthy.
C16_Witness ==
    /\ got.type = "voice" /\ got.name = Null /\ got.result # Null
    /\ MemoryDefaults(providers, "voice") = {}
    /\ DefaultsOf(provider_configurations, "voice") = {}
    /\ \A i \in 1..Len(providers) :
          providers[i].key[1] = "voice" => ~providers[i].isHealthy

\* C17 (as claimed): no step of a setDefault(type, name) whose (type, name) is not
\* registered changes which provider of the type is default, in the Map or in the
\* table, and the call does not end in success.
C17_UnregisteredSetDefaultRejected ==
    [][\A c \in Callers :
          /\ sd[c].pc \in {"clearing", "setting", "updating"}
          /\ sd'[c] # sd[c]
          /\ Key(sd[c].type, sd[c].name) \notin ActiveRows
          => /\ sd'[c].status # 200
             /\ DefaultsOf(provider_configurations', sd[c].type) =
                   DefaultsOf(provider_configurations, sd[c].type)
             /\ MemoryDefaults(providers', sd[c].type) =
                   MemoryDefaults(providers, sd[c].type)]_vars

(***************************************************************************)
(* Properties of the health monitor                                        *)
(***************************************************************************)

InProgress(r) == round[r].pc \in {"probing", "persisting", "hung"}

\* C12 (as claimed): a round touches the health of the provider it is probing
\* only; when it leaves a provider, that provider's health is the outcome of its
\* own probe in the round (unhealthy when the probe threw or answered unhealthy,
\* healthy when it answered healthy), whatever the probes of the other providers
\* did; and the round ends by returning to whoever started it.
C12_ProbeFailureIsolated ==
    [][\A r \in Rounds :
          round'[r] # round[r] /\ round[r].pc \in {"probing", "persisting"} =>
             LET i == round[r].i
             IN  /\ \A j \in 1..Len(providers) :
                       j # i => providers'[j].isHealthy = providers[j].isHealthy
                 /\ round[r].pc = "persisting" =>
                       providers'[i].isHealthy = round[r].isHealthy
                 /\ round[r].pc = "probing" /\ round'[r].pc \in {"probing", "done"} =>
                       ~providers'[i].isHealthy
                 /\ round'[r].pc = "done" => round'[r].res = "returned"]_vars

\* C13 (as claimed): every round that has started eventually completes, with
\* every registered provider probed.
C13_EveryRoundCompletes ==
    \A r \in Rounds :
        (round[r].pc \in {"probing", "persisting"}) ~>
           (/\ round[r].pc = "done"
            /\ \A i \in 1..Len(providers) : providers[i].lastHealthCheck = "set")

\* C14 (as claimed): at most one runHealthChecks call is in progress at any time.
C14_AtMostOneRound ==
    Cardinality({r \in Rounds : InProgress(r)}) <= 1

\* C18 (as claimed): when a round completes, the persisted health_status of every
\* registered provider is 'healthy' exactly when its in-memory isHealthy is true.
C18_PersistedHealthAgrees ==
    [][\A r \in Rounds :
          round[r].pc # "done" /\ round'[r].pc = "done" =>
             \A i \in 1..Len(providers') :
                (health_status'[providers'[i].key] = "healthy") = providers'[i].isHealthy]_vars

(***************************************************************************)
(* Properties of the event bus                                             *)
(***************************************************************************)

\* the handlers invoked with payload n, in invocation order
ReceiversOf(log, n) ==
    LET hits == SelectSeq(log, LAMBDA d : d.data.id = n)
    IN  [i \in 1..Len(hits) |-> hits[i].handler]

\* the payload ids handler h was invoked with, in invocation order
ReceivedBy(log, h) ==
    LET hits == SelectSeq(log, LAMBDA d : d.handler = h)
    IN  [i \in 1..Len(hits) |-> hits[i].data.id]

\* the event name payload n was emitted under
EventOf(hist, n) == (CHOOSE i \in 1..Len(hist) : hist[i].data.id = n)

Increasing(s) == \A i, j \in 1..Len(s) : i < j => s[i] < s[j]

\* every payload emitted in this step went once to each handler subscribed to its
\* name, in subscription order
ExactlyOnceInSubscriptionOrder ==
    \A n \in (emitted + 1)..emitted' :
        ReceiversOf(delivered', n) = listeners[history'[EventOf(history', n)].event]

\* every handler received the payloads of this step in emission order
InEmissionOrder ==
    \A h \in Handlers : Increasing(ReceivedBy(delivered', h))

\* C8 (as claimed): every publish delivers each event exactly once to every handler
\* subscribed to its name, handlers of a name are invoked in subscription order, and
\* each subscriber receives the payloads in emission order.
C8_ExactlyOnceInEmissionOrder ==
    [][published' = published + 1 =>
          ExactlyOnceInSubscriptionOrder /\ InEmissionOrder]_vars

\* The part of C8 that holds of the code: exactly once, in subscription order.
DeliveredExactlyOnce ==
    [][published' = published + 1 => ExactlyOnceInSubscriptionOrder]_vars

\* C9: when a failing handler (throwing or rejecting) is subscribed to the name
\* being published, every other handler subscribed to the name, before or after
\* it, is still invoked once with the event, the event is the newest history
\* entry but for follow-ups, and emit returns (true) to the publisher.
C9_FailingHandlerIsolated ==
    [][\A e \in EventNames, mode \in FailModes :
          Publish(e, mode) /\ "fails" \in Range(listeners[e]) =>
             /\ \A h \in Range(listeners[e]) :
                   Len(SelectSeq(delivered',
                          LAMBDA d : d.handler = h /\ d.event = e
                                     /\ d.data = Payload(emitted + 1, FALSE))) = 1
             /\ \E i \in 1..Len(history') :
                   history'[i] = [event |-> e, data |-> Payload(emitted + 1, FALSE)]
             /\ lastEmit' = "true"]_vars

\* C9 witness: an emit call returned after invoking a handler, then the failing
\* handler, then another handler, all with the same event.
C9_Witness ==
    /\ lastEmit = "true"
    /\ \E i, j, k \in 1..Len(delivered) :
          /\ i < j /\ j < k
          /\ delivered[j].handler = "fails"
          /\ delivered[i].handler # "fails" /\ delivered[k].handler # "fails"
          /\ delivered[i].data = delivered[j].data
          /\ delivered[k].data = delivered[j].data

Min(a, b) == IF a < b THEN a ELSE b

\* C10: between publishes the history holds exactly the most recent
\* min(n, historyLimit) of the n events emitted so far, in emission order; so it
\* never exceeds historyLimit, every emit adds one entry, and the entries
\* dropped are the oldest.
C10_HistoryIsMostRecent ==
    /\ Len(history) = Min(emitted, historyLimit)
    /\ \A i \in 1..Len(history) : history[i].data.id = emitted - Len(history) + i

\* C10 witness: more than historyLimit events were emitted, the history is full
\* and its oldest entries are gone.
C10_Witness ==
    /\ emitted > historyLimit + 1
    /\ Len(history) = historyLimit
    /\ history[1].data.id > 2
    /\ published > 0

\* C11 (as claimed): a publish made from inside a handler is queued: within one
\* publisher's emit call no handler is invoked with the nested event before every
\* handler subscribed to the event being dispatched has been invoked with it; the
\* call returns, and the nested event is delivered and stored in the history.
C11_NestedPublishQueued ==
    [][published' = published + 1 =>
          /\ \A i, j \in 1..Len(delivered') :
                delivered'[i].data.nested /\ ~delivered'[j].data.nested => j < i
          /\ lastEmit' \in {"true", "false"}
          /\ \A n \in (emitted + 1)..emitted' :
                /\ \E i \in 1..Len(history') : history'[i].data.id = n
                /\ ReceiversOf(delivered', n) =
                      listeners[history'[EventOf(history', n)].event]]_vars

(***************************************************************************)
(* Properties of ingestion and classification                              *)
(***************************************************************************)

LeadNewEvents == SelectSeq(history, LAMBDA e : e.event = "lead:new")
LedgerIds == {universal_leads_ledger[i].id : i \in 1..Len(universal_leads_ledger)}
Responded(r, status) == req[r].res # <<>> /\ req[r].res[1].status = status

\* C4: every 'lead:new' event carries the id of a stored lead and belongs to one
\* request, the one that inserted that lead and answered 202; no two events carry
\* the same lead id; a request whose INSERT failed has answered 500 and no event
\* exists for it (there are exactly as many events as 202 answers).
C4_PublishedAtMostOnceAfterInsert ==
    /\ \A i \in 1..Len(LeadNewEvents) :
          /\ LeadNewEvents[i].data.leadId \in LedgerIds
          /\ \E r \in Requests :
                /\ req[r].leadId = LeadNewEvents[i].data.leadId
                /\ Responded(r, 202) /\ req[r].res[1].leadId = req[r].leadId
          /\ \A j \in 1..Len(LeadNewEvents) :
                LeadNewEvents[j].data.leadId = LeadNewEvents[i].data.leadId => i = j
    /\ \A r \in Requests :
          req[r].thrownBy = "insert" =>
             /\ Responded(r, 500)
             /\ req[r].leadId = 0
    /\ Len(LeadNewEvents) = Cardinality({r \in Requests : Responded(r, 202)})

\* C4 witness: two requests were in flight together; the INSERT of one failed and
\* the other published its event.
C4_Witness ==
    \E r1, r2 \in Requests :
        /\ req[r1].thrownBy = "insert"
        /\ Responded(r2, 202)
        /\ Len(LeadNewEvents) = 1
        /\ LeadNewEvents[1].data.leadId = req[r2].leadId

IsEmpty(body) == ~body.present \/ DOMAIN body.fields = {}

\* C5 (as claimed): a request whose body is absent or {} is answered 400 'Empty
\* payload' with its request id and no lead id, whatever its headers; the
\* classifier is not called and nothing is stored, audited or published for it.
C5_EmptyPayloadRejected ==
    \A r \in Requests :
        req[r].pc # "idle" /\ IsEmpty(req[r].body) =>
           /\ req[r].pc = "done"
           /\ req[r].res[1] = Response(r, 400, "Empty payload", 0, <<>>)
           /\ req[r].classifier = <<>>
           /\ req[r].leadId = 0
           /\ \A i \in 1..Len(universal_leads_ledger) :
                 DOMAIN universal_leads_ledger[i].raw_data # {}
           /\ Len(audit_log) <= Len(universal_leads_ledger)
           /\ Len(LeadNewEvents) <= Len(audit_log)

\* C6: when the external call fails entirely, classifyLead returns the fixed
\* default result and raises nothing: the request ends with 500 only if a
\* database write failed, and otherwise with 202, the response naming intent
\* 'other' and persona 'professional', the stored row holding them with score 30.
C6_ClassifierFailureGivesDefault ==
    \A r \in Requests :
        req[r].classifier # <<>> /\ req[r].classifier[1].kind \in FailureKinds =>
           /\ req[r].classification[1] =
                 [intent |-> "other", urgency |-> Num(500), estimatedValue |-> Num(0),
                  persona |-> "professional", vertical |-> "other", language |-> "en",
                  score |-> Num(3000), conversionProbability |-> Num(30),
                  summary |-> "Classification failed - manual review needed"]
           /\ req[r].pc = "done" =>
                 \/ Responded(r, 500) /\ req[r].thrownBy \in {"insert", "audit"}
                 \/ /\ Responded(r, 202)
                    /\ req[r].res[1].classification[1].intent = "other"
                    /\ req[r].res[1].classification[1].persona = "professional"
                    /\ \E i \in 1..Len(universal_leads_ledger) :
                          /\ universal_leads_ledger[i].id = req[r].leadId
                          /\ universal_leads_ledger[i].detected_intent = "other"
                          /\ universal_leads_ledger[i].required_persona = "professional"
                          /\ universal_leads_ledger[i].lead_score = Num(3000)

\* C6 witness: the classifier failed in each of the three ways and a request
\* whose classifier failed was answered 202.
C6_Witness ==
    \E r1, r2 \in Requests :
        /\ req[r1].classifier # <<>> /\ req[r1].classifier[1].kind = "malformed"
        /\ Responded(r1, 202)
        /\ req[r2].classifier # <<>> /\ req[r2].classifier[1].kind \in {"throws", "timeout"}
        /\ req[r2].pc = "auditing"

IsInteger(x) == x.k = "num" /\ x.v % 100 = 0
InRange(x, lo, hi) == x.k = "num" /\ lo <= x.v /\ x.v <= hi

\* C7: every row stored by an ingestion has an integer urgency in [1,10], a lead
\* score in [1,100], a conversion probability in [0,1], and intent, persona and
\* vertical in their enumerations, whatever the classifier answered.
C7_StoredClassificationInDomain ==
    \A i \in 1..Len(universal_leads_ledger) :
        LET row == universal_leads_ledger[i]
        IN  /\ IsInteger(row.detected_urgency)
            /\ InRange(row.detected_urgency, 100, 1000)
            /\ InRange(row.lead_score, 100, 10000)
            /\ InRange(row.conversion_probability, 0, 100)
            /\ row.detected_intent \in
                  {"buying", "selling", "suing", "asking", "complaining", "scheduling",
                   "other"}
            /\ row.required_persona \in
                  {"shark", "empath", "concierge", "professional", "closer"}
            /\ row.business_vertical \in
                  {"law", "real_estate", "ecommerce", "consulting", "services", "other"}

\* C7 witness: a request was answered 202 after the classifier answered with an
\* urgency, a score and a probability above their ranges and an unknown intent.
C7_Witness ==
    \E r \in Requests :
        /\ Responded(r, 202)
        /\ req[r].classifier[1].result[1].urgency = Num(15000)
        /\ req[r].classifier[1].result[1].score = Num(15000)
        /\ req[r].classifier[1].result[1].conversionProbability = Infinity
        /\ req[r].classifier[1].result[1].intent = "SUING"
        /\ \E i \in 1..Len(universal_leads_ledger) :
              /\ universal_leads_ledger[i].id = req[r].leadId
              /\ universal_leads_ledger[i].detected_urgency = Num(1000)
              /\ universal_leads_ledger[i].conversion_probability = Num(100)


\* C19 (as claimed): a request whose audit INSERT failed after its lead was
\* inserted keeps the lead stored, has its 'lead:new' event published exactly
\* once, and is answered 202 with the lead id.
C19_AuditFailureAbsorbed ==
    \A r \in Requests :
        req[r].thrownBy = "audit" =>
           /\ req[r].leadId \in LedgerIds
           /\ Len(SelectSeq(LeadNewEvents,
                            LAMBDA e : e.data.leadId = req[r].leadId)) = 1
           /\ Responded(r, 202)
           /\ req[r].res[1].leadId = req[r].leadId

\* C20 (as claimed): every accepted request eventually sends exactly one response.
C20_EveryRequestAnswered ==
    \A r \in Requests :
        (req[r].pc = "classifying") ~> (req[r].pc = "done" /\ Len(req[r].res) = 1)

(***************************************************************************)
(* Properties of the real-time gateway, the history and the lead status    *)
(***************************************************************************)

\* C23: in the step that publishes an event, every socket that is in the Set and
\* open receives one more message, the event name, the payload and a timestamp,
\* when the name is one the gateway subscribes to; every other socket (closing,
\* closed, errored, connection lost) and every socket when the name is another
\* one receives nothing, then or later; the publish changes no socket's state.
C23_BroadcastToOpenListeners ==
    [][/\ published' = published + 1 =>
             LET e == history'[Len(history')].event
                 data == history'[Len(history')].data
             IN  /\ clients' = clients /\ readyState' = readyState
                 /\ \A s \in Sockets :
                       IF s \in Range(clients) /\ readyState[s] = "open" /\ e \in Forwarded
                       THEN /\ Len(inbox'[s]) = Len(inbox[s]) + 1
                            /\ SubSeq(inbox'[s], 1, Len(inbox[s])) = inbox[s]
                            /\ LET m == inbox'[s][Len(inbox'[s])].text
                               IN  /\ DOMAIN m = {"type", "data", "timestamp"}
                                   /\ m.type = e /\ m.data = data
                       ELSE inbox'[s] = inbox[s]
       /\ published' = published =>
             \A s \in Sockets : readyState[s] # "none" => inbox'[s] = inbox[s]]_vars

\* C23 witness: of two sockets in the Set, the first was not open (closing or its
\* connection lost) when an event was published, and the second, behind it in
\* the Set, received the event.
C23_Witness ==
    \E s, t \in Sockets :
        /\ clients = <<s, t>>
        /\ readyState[s] \in {"closing", "stalled"} /\ readyState[t] = "open"
        /\ Len(inbox[s]) = 1 /\ Len(inbox[t]) = 2
        /\ inbox[t][2].text.type \in Forwarded
        /\ published = 1

\* C24 (as claimed): a history query with limit N returns the last min(N, k)
\* of the k recorded events (of the given name when one is given), in emission
\* order: never more than N.
C24_HistoryReturnsLastN ==
    [][queried' # queried =>
          LET q == queried'
              recorded == IF q.name = Null THEN history
                          ELSE SelectSeq(history, LAMBDA e : e.event = q.name)
              n == Min(q.limit, Len(recorded))
          IN  /\ Len(q.result) <= q.limit
              /\ q.result = SubSeq(recorded, Len(recorded) - n + 1, Len(recorded))]_vars

\* the documented priority, for an urgency and a value in hundredths
DocumentedPriority(urgency, value, intent) ==
    Min(10, 5 + (IF urgency >= 800 THEN 3 ELSE IF urgency >= 500 THEN 1 ELSE 0)
              + (IF value > 5000000 THEN 2 ELSE IF value > 1000000 THEN 1 ELSE 0)
              + (IF intent = "suing" THEN 2 ELSE IF intent = "buying" THEN 1 ELSE 0))

\* C21: the priority of every 'lead:new' event is the documented function of the
\* urgency, value and intent of its classification, an integer in 5..10; two
\* events with the same three inputs carry the same priority; and the
\* classification the event carries is the one that was stored (computing the
\* priority changed nothing).
C21_PriorityIsDocumentedFunction ==
    \A i \in 1..Len(LeadNewEvents) :
        LET e == LeadNewEvents[i].data
            c == e.classification
        IN  /\ e.priority = DocumentedPriority(c.urgency.v, c.estimatedValue.v, c.intent)
            /\ e.priority \in 5..10
            /\ \A j \in 1..Len(LeadNewEvents) :
                  LET d == LeadNewEvents[j].data.classification
                  IN  d.urgency = c.urgency /\ d.estimatedValue = c.estimatedValue
                      /\ d.intent = c.intent
                      => LeadNewEvents[j].data.priority = e.priority
            /\ \E k \in 1..Len(universal_leads_ledger) :
                  /\ universal_leads_ledger[k].id = e.leadId
                  /\ universal_leads_ledger[k].detected_urgency = c.urgency
                  /\ universal_leads_ledger[k].estimated_value = c.estimatedValue
                  /\ universal_leads_ledger[k].detected_intent = c.intent

\* C21 witness: an event whose bonuses add up to more than 10 was published with
\* priority 10.
C21_Witness ==
    \E i \in 1..Len(LeadNewEvents) :
        LET e == LeadNewEvents[i].data
        IN  /\ e.classification.urgency = Num(800)
            /\ e.classification.estimatedValue = Num(5000001)
            /\ e.classification.intent = "suing"
            /\ e.priority = 10

\* C22 (as claimed): the estimated value of every classification result and of
\* every stored lead is a number that is not negative.
C22_EstimatedValueNonNegative ==
    /\ \A r \in Requests :
          req[r].classification # <<>> =>
             /\ req[r].classification[1].estimatedValue.k \in {"num", "inf"}
             /\ req[r].classification[1].estimatedValue.k = "num" =>
                   req[r].classification[1].estimatedValue.v >= 0
    /\ \A i \in 1..Len(universal_leads_ledger) :
          /\ universal_leads_ledger[i].estimated_value.k = "num"
          /\ universal_leads_ledger[i].estimated_value.v >= 0

\* the channels of the ledger's source_channel enumeration
Channels == {"web", "whatsapp", "email", "voice", "facebook", "telegram", "unknown"}

\* C25 (as claimed): the source channel stored for a lead is the explicit channel
\* header when the request has one; otherwise it is one of the enumerated
\* channels, and 'web' when the request carries no marker.
C25_ChannelInEnumeration ==
    \A r \in Requests : \A i \in 1..Len(universal_leads_ledger) :
        universal_leads_ledger[i].id = req[r].leadId =>
           LET h == req[r].headers
               stored == universal_leads_ledger[i].source_channel
           IN  IF h.xSourceChannel # "" THEN stored = h.xSourceChannel
               ELSE /\ stored \in Channels
                    /\ h.userAgent \in {"", "mozilla"} /\ h.xFbSignature = ""
                       /\ h.xTelegramToken = "" => stored = "web"

\* the keys of the providers flagged default in the Map
MemoryDefaultKeys(provs, type) == {provs[i].key : i \in MemoryDefaults(provs, type)}

\* C26 (as claimed): when no setDefault call is in flight, for each type some
\* call has switched,
\* the provider flagged default in the Map is exactly the row with
\* is_default = TRUE in the table.
C26_DefaultsAgreeWhenQuiescent ==
    \A type \in Types :
        /\ \A c \in Callers : sd[c].pc = "idle"
        /\ \E c \in Callers : sd[c].type = type /\ sd[c].status = 200
        => MemoryDefaultKeys(providers, type) = DefaultsOf(provider_configurations, type)

\* C27 (as claimed): after a setDefault call that failed on a storage error, the
\* table does not hold a type without default while the Map still names one.
C27_FailedSetDefaultKeepsDefault ==
    \A c \in Callers :
        sd[c].pc = "idle" /\ sd[c].status = 500 =>
           ~ /\ DefaultsOf(provider_configurations, sd[c].type) = {}
             /\ MemoryDefaults(providers, sd[c].type) # {}

\* C28 (as claimed): when a round leaves a provider whose probe answered
\* healthy, the provider is healthy in the Map, also when persisting the result
\* failed.
C28_HealthFollowsProbeOnly ==
    [][\A r \in Rounds :
          /\ round[r].pc = "persisting"
          /\ round[r].isHealthy
          /\ round'[r] # round[r]
          => providers'[round[r].i].isHealthy]_vars

\* C29 (as claimed): the health-status read reports no provider healthy whose
\* last check is empty.
C29_UnprobedNotReportedHealthy ==
    \A k \in DOMAIN getHealthStatus(providers) :
        getHealthStatus(providers)[k].healthy =>
           getHealthStatus(providers)[k].lastCheck # Null

\* the statuses of the ledger's status enumeration
LeadStatuses == {"incoming", "processing", "negotiating", "contract_sent", "paid", "lost"}

\* the event the step has published, if it is a 'lead:status_changed'
StatusChangedPublished ==
    /\ Len(history') = Len(history) + 1
    /\ history'[Len(history')].event = "lead:status_changed"

\* C30: every stored lead's status is one of the six statuses; an update whose
\* status is none of them is answered 400 and never reaches the UPDATE; a step
\* that answers 400, 404 or 500 changes no lead and publishes nothing; a
\* 'lead:status_changed' is published only by a step that sets the status of an
\* existing lead to the requested one and answers 200.
C30_StatusStaysInEnumeration ==
    /\ [](\A i \in 1..Len(universal_leads_ledger) :
             universal_leads_ledger[i].status \in LeadStatuses)
    /\ [][ /\ \A p \in Patchers :
                /\ patch'[p].pc # "idle" =>
                      (patch'[p].status \notin LeadStatuses <=> patch'[p].code = 400)
                /\ patch'[p] # patch[p] /\ patch'[p].code \in {400, 404, 500} =>
                     /\ universal_leads_ledger' = universal_leads_ledger
                     /\ history' = history
           /\ StatusChangedPublished =>
                 \E p \in Patchers :
                    /\ patch[p].pc = "updating" /\ patch'[p].code = 200
                    /\ history'[Len(history')].data.leadId = patch[p].id
                    /\ \E i \in 1..Len(universal_leads_ledger) :
                          /\ universal_leads_ledger[i].id = patch[p].id
                          /\ universal_leads_ledger'[i].status = patch[p].status]_vars

\* C30 witness: one update was rejected for its status, another set an existing
\* lead to 'paid', and its 'lead:status_changed' event is in the history.
C30_Witness ==
    /\ \E p \in Patchers : patch[p].code = 400 /\ patch[p].status = "archived"
    /\ \E p \in Patchers : patch[p].code = 200 /\ patch[p].status = "paid"
    /\ \E i \in 1..Len(universal_leads_ledger) : universal_leads_ledger[i].status = "paid"
    /\ \E n \in 1..Len(history) : history[n].event = "lead:status_changed"

====
